---- MODULE Spec2Model ----
(***************************************************************************)
(* Model of app3.py, the Global Diplomacy Index dashboard script.          *)
(*                                                                         *)
(* A DataFrame is a sequence of rows.  A row of the detail sheet is a      *)
(* function from the column labels the sheet has to the cell values.  A    *)
(* cell that pandas may leave missing (NaN) is an option: <<>> is NaN and  *)
(* <<v>> is the value v.                                                   *)
(*                                                                         *)
(* The columns POPULATION (M) and GDP (B, USD) are carried through tab 2   *)
(* exactly like OVERALL RANK (same drop_duplicates, same merges), so the   *)
(* per-row metadata is represented by OVERALL RANK alone.                  *)
(***************************************************************************)
EXTENDS Integers, Sequences, FiniteSets, TLC

VARIABLES file, columns, df_detail, pc, error, df_long, df_wide, tab1, tab2,
          df, rank_analysis

vars == <<file, columns, df_detail, pc, error, df_long, df_wide, tab1, tab2,
          df, rank_analysis>>

pipeline_vars == <<file, columns, df_detail, pc, error, df_long, df_wide, tab1, tab2>>

----------------------------------------------------------------------------
(* Bounds of the model *)

\* longest detail sheet (raw rows) drawn in Init
MaxRows == 3

\* largest post count of one (country, year) drawn for the rank analysis
MaxPosts == 2

\* country names, in the order Python compares the strings
NameOrder == <<"China", "France", "Japan">>

Countries == {NameOrder[i] : i \in DOMAIN NameOrder}

\* the countries of the detail sheets
DetailCountries == {"China", "France"}

Years == {2020, 2021}

\* the four labels tab 2 consolidates, and one it does not
PostTypes == {"Embassy", "High Commission", "Consulate", "Consulate General",
              "Trade Office"}

OverallRanks == {1, 2}

----------------------------------------------------------------------------
(* Column labels of the detail sheet *)

ColCountry == "COUNTRY"

ColYear == "Year"

ColRank == "OVERALL RANK"

ColType == "POST TYPE TITLE"

AllCols == {ColCountry, ColYear, ColRank, ColType}

required_cols == <<ColCountry, ColYear, ColRank>>

NaN == <<>>

Some(v) == <<v>>

----------------------------------------------------------------------------
(* Generic helpers *)

Range(s) == {s[i] : i \in DOMAIN s}

Min(a, b) == IF a <= b THEN a ELSE b

RECURSIVE Sum(_, _)
Sum(f, S) ==
    IF S = {} THEN 0
    ELSE LET x == CHOOSE y \in S : TRUE IN f[x] + Sum(f, S \ {x})

SeqSum(s) == Sum(s, DOMAIN s)

RECURSIVE Flatten(_)
Flatten(ss) == IF ss = <<>> THEN <<>> ELSE Head(ss) \o Flatten(Tail(ss))

Perms(n) == {p \in [1..n -> 1..n] : \A i, j \in 1..n : p[i] = p[j] => i = j}

NameIndex(n) == CHOOSE i \in DOMAIN NameOrder : NameOrder[i] = n

\* Python's tuple comparison of (COUNTRY, Year) group keys
KeyLeq(a, b) ==
    \/ NameIndex(a[1]) < NameIndex(b[1])
    \/ a[1] = b[1] /\ a[2] <= b[2]

RECURSIVE SortKeys(_)
SortKeys(S) ==
    IF S = {} THEN <<>>
    ELSE LET m == CHOOSE k \in S : \A o \in S : KeyLeq(k, o)
         IN  <<m>> \o SortKeys(S \ {m})

RECURSIVE SortNames(_)
SortNames(S) ==
    IF S = {} THEN <<>>
    ELSE LET m == CHOOSE k \in S : \A o \in S : NameIndex(k) <= NameIndex(o)
         IN  <<m>> \o SortNames(S \ {m})

RECURSIVE SortInts(_)
SortInts(S) ==
    IF S = {} THEN <<>>
    ELSE LET m == CHOOSE k \in S : \A o \in S : k <= o
         IN  <<m>> \o SortInts(S \ {m})

\* DataFrame.head(n)
head(frame, n) == SubSeq(frame, 1, Min(n, Len(frame)))

\* DataFrame.sort_values(by=..., ascending=...) with the default
\* kind='quicksort': the result is ordered by the key, and the order of rows
\* with equal keys is whatever the sort of the installed numpy produces.
\* Every key-ordered permutation of the rows is a possible outcome.
sort_values(frame, by, ascending) ==
    {[i \in 1..Len(frame) |-> frame[p[i]]] :
        p \in {q \in Perms(Len(frame)) :
                 \A i, j \in 1..Len(frame) :
                    i < j => IF ascending
                             THEN frame[q[i]][by] <= frame[q[j]][by]
                             ELSE frame[q[i]][by] >= frame[q[j]][by]}}

----------------------------------------------------------------------------
(* load_and_prepare_data *)

\* faulty variant: any() in place of all()
all_required_any(cols) == \E i \in DOMAIN required_cols : required_cols[i] \in cols

\* all(col in df_detail.columns for col in required_cols)
all_required(cols) == \A i \in DOMAIN required_cols : required_cols[i] \in cols

\* faulty variant: nunique() of the labels in place of size()
groupby_size_nunique(detail) ==
    LET keys == {<<detail[i][ColCountry], detail[i][ColYear]>> : i \in DOMAIN detail}
        sk   == SortKeys(keys)
    IN  [k \in 1..Len(sk) |->
           [Name  |-> sk[k][1],
            Year  |-> sk[k][2],
            Posts |-> Cardinality({detail[i][ColType] : i \in
                         {j \in DOMAIN detail :
                            /\ detail[j][ColCountry] = sk[k][1]
                            /\ detail[j][ColYear] = sk[k][2]}})]]

\* df_detail.groupby(['COUNTRY', 'Year']).size().reset_index(name='Posts')
\* followed by rename(columns={'COUNTRY': 'Name'}): one row per group key, in
\* key order, Posts the number of rows of the group.  Line 30 applies
\* pd.to_numeric(errors='coerce').dropna() to Posts, which size() made int64:
\* nothing is coerced, nothing is dropped, and the index-aligned assignment
\* writes every row back unchanged.
groupby_size(detail) ==
    LET keys == {<<detail[i][ColCountry], detail[i][ColYear]>> : i \in DOMAIN detail}
        sk   == SortKeys(keys)
    IN  [k \in 1..Len(sk) |->
           [Name  |-> sk[k][1],
            Year  |-> sk[k][2],
            Posts |-> Cardinality({i \in DOMAIN detail :
                                     /\ detail[i][ColCountry] = sk[k][1]
                                     /\ detail[i][ColYear] = sk[k][2]})]]

\* str(col) of a pivot column label
str(col) == ToString(col)

\* aggfunc='mean', pivot_table's default, of the Posts of one cell
mean(vals) == SeqSum(vals) \div Len(vals)

\* faulty variant: pivot_table(..., fill_value=0)
cell_fill_zero(long, name, year) ==
    LET hit == SelectSeq(long, LAMBDA r : r.Name = name /\ r.Year = year)
    IN  IF hit = <<>> THEN Some(0)
        ELSE Some(mean([i \in DOMAIN hit |-> hit[i].Posts]))

\* one cell of the pivot: the mean of the Posts of the rows with that Name and
\* Year, NaN when there is none
cell(long, name, year) ==
    LET hit == SelectSeq(long, LAMBDA r : r.Name = name /\ r.Year = year)
    IN  IF hit = <<>> THEN NaN
        ELSE Some(mean([i \in DOMAIN hit |-> hit[i].Posts]))

\* df_long.pivot_table(index='Name', columns='Year', values='Posts')
\* .reset_index(), then every column label replaced by its str()
pivot_table(long) ==
    LET names  == SortNames({long[i].Name : i \in DOMAIN long})
        years  == SortInts({long[i].Year : i \in DOMAIN long})
    IN  [columns |-> <<"Name">> \o [k \in DOMAIN years |-> str(years[k])],
         rows    |-> [n \in DOMAIN names |->
                        [Name   |-> names[n],
                         values |-> [k \in DOMAIN years |->
                                       cell(long, names[n], years[k])]]]]

NoWide == [columns |-> <<>>, rows |-> <<>>]

NoTab1 == [latest_year |-> 0, top |-> "", top_posts |-> 0, top_rank |-> 0,
           second |-> "", second_posts |-> 0, second_rank |-> 0]

NoTab2 == [year_to_display |-> 0, df_final_display |-> <<>>, df_display |-> <<>>]

NoAnalysis == [status |-> "none", start_year |-> 0, end_year |-> 0,
               df_start |-> <<>>, df_end |-> <<>>,
               columns |-> <<>>, df_merged |-> <<>>,
               most_improved |-> <<>>, biggest_fall |-> <<>>]

\* load_and_prepare_data('globaldiplomacyindex.xlsx', 'Sheet1'), called once
load_and_prepare_data ==
    /\ pc = "start"
    /\ IF file # "ok"
       THEN \* read_excel raised: st.error, st.stop()
            /\ pc' = "stopped"
            /\ error' = "FATAL ERROR loading"
            /\ UNCHANGED <<df_long, df_wide>>
       ELSE IF ~all_required(columns)
       THEN \* st.error, st.stop()
            /\ pc' = "stopped"
            /\ error' = "FATAL ERROR: columns"
            /\ UNCHANGED <<df_long, df_wide>>
       ELSE IF ~({ColCountry, ColYear} \subseteq columns)
       THEN \* groupby on a label the frame lacks
            /\ pc' = "crashed"
            /\ error' = "KeyError"
            /\ UNCHANGED <<df_long, df_wide>>
       ELSE /\ pc' = "loaded"
            /\ df_long' = groupby_size(df_detail)
            /\ df_wide' = pivot_table(groupby_size(df_detail))
            /\ UNCHANGED error
    /\ UNCHANGED <<file, columns, df_detail, tab1, tab2, df, rank_analysis>>

----------------------------------------------------------------------------
(* Tab 1: key findings *)

max_year(long) == CHOOSE y \in {long[i].Year : i \in DOMAIN long} :
                     \A i \in DOMAIN long : long[i].Year <= y

\* df_detail_latest[df_detail_latest['COUNTRY'] == name].iloc[0]
first_detail(detail, year, name) ==
    Head(SelectSeq(detail, LAMBDA r : r[ColYear] = year /\ r[ColCountry] = name))

\* with tab1: the two countries with most posts in the latest year
Tab1 ==
    /\ pc = "loaded"
    /\ LET latest == SelectSeq(df_long, LAMBDA r : r.Year = max_year(df_long))
       IN  IF df_long = <<>> \/ Len(latest) < 2
           THEN \* top_performers.iloc[0] / iloc[1] is out of bounds
                /\ pc' = "crashed"
                /\ error' = "IndexError"
                /\ UNCHANGED tab1
           ELSE \E top_performers \in sort_values(latest, "Posts", FALSE) :
                /\ pc' = "tab1"
                /\ tab1' =
                     [latest_year  |-> max_year(df_long),
                      top          |-> top_performers[1].Name,
                      top_posts    |-> top_performers[1].Posts,
                      top_rank     |-> first_detail(df_detail, max_year(df_long),
                                         top_performers[1].Name)[ColRank],
                      second       |-> top_performers[2].Name,
                      second_posts |-> top_performers[2].Posts,
                      second_rank  |-> first_detail(df_detail, max_year(df_long),
                                         top_performers[2].Name)[ColRank]]
                /\ UNCHANGED error
    /\ UNCHANGED <<file, columns, df_detail, df_long, df_wide, tab2, df, rank_analysis>>

----------------------------------------------------------------------------
(* Tab 2: the ranking table of one year *)

RecognisedTypes == {"Embassy", "High Commission", "Consulate", "Consulate General"}

\* faulty variant: only the rows with one of the four labels are counted
value_counts_unstack_recognised(ranking) ==
    LET kept == SelectSeq(ranking, LAMBDA r : r[ColType] \in RecognisedTypes)
        names  == {kept[i][ColCountry] : i \in DOMAIN kept}
        labels == {kept[i][ColType] : i \in DOMAIN kept}
    IN  [index   |-> SortNames(names),
         columns |-> labels,
         counts  |-> [c \in names |-> [t \in labels |->
                        Cardinality({i \in DOMAIN kept :
                                       /\ kept[i][ColCountry] = c
                                       /\ kept[i][ColType] = t})]]]

\* df_ranking.groupby('COUNTRY')['POST TYPE TITLE'].value_counts()
\* .unstack(fill_value=0): one row per country of the year, one column per
\* label that occurs in the year, the count in the cell and 0 where the
\* country has no post of that label
value_counts_unstack(ranking) ==
    LET names  == {ranking[i][ColCountry] : i \in DOMAIN ranking}
        labels == {ranking[i][ColType] : i \in DOMAIN ranking}
    IN  [index   |-> SortNames(names),
         columns |-> labels,
         counts  |-> [c \in names |-> [t \in labels |->
                        Cardinality({i \in DOMAIN ranking :
                                       /\ ranking[i][ColCountry] = c
                                       /\ ranking[i][ColType] = t})]]]

\* post_type_counts.get(label, 0), read at the row of country c: the column
\* when the frame has it, else the default 0
get(ptc, label, c) == IF label \in ptc.columns THEN ptc.counts[c][label] ELSE 0

Consulates(ptc, c) == get(ptc, "Consulate", c) + get(ptc, "Consulate General", c)

\* faulty variant: High Commission left out
Embassies_no_high_commission(ptc, c) == get(ptc, "Embassy", c)

Embassies(ptc, c) == get(ptc, "Embassy", c) + get(ptc, "High Commission", c)

\* post_type_counts[['Embassies', 'Consulates']] after lines 97-98
post_type_counts(ranking) ==
    LET ptc == value_counts_unstack(ranking)
    IN  [k \in DOMAIN ptc.index |->
           [COUNTRY    |-> ptc.index[k],
            Embassies  |-> Embassies(ptc, ptc.index[k]),
            Consulates |-> Consulates(ptc, ptc.index[k])]]

\* the metadata columns of df_ranking
meta_columns(ranking) ==
    [i \in DOMAIN ranking |->
       [COUNTRY |-> ranking[i][ColCountry], OVERALL_RANK |-> ranking[i][ColRank]]]

\* faulty variant: drop_duplicates() without subset
drop_duplicates_all_columns(frame) ==
    LET keep == {i \in DOMAIN frame : \A j \in 1..(i - 1) : frame[j] # frame[i]}
        idx  == SortInts(keep)
    IN  [k \in DOMAIN idx |-> frame[idx[k]]]

\* .drop_duplicates(subset=['COUNTRY']): the first row of every country
drop_duplicates(frame) ==
    LET keep == {i \in DOMAIN frame :
                   \A j \in 1..(i - 1) : frame[j].COUNTRY # frame[i].COUNTRY}
        idx  == SortInts(keep)
    IN  [k \in DOMAIN idx |-> frame[idx[k]]]

\* df_long[df_long['Year'] == year][['Name', 'Posts']] renamed to
\* COUNTRY / TOTAL POSTS
total_posts(long, year) ==
    LET sel == SelectSeq(long, LAMBDA r : r.Year = year)
    IN  [i \in DOMAIN sel |-> [COUNTRY |-> sel[i].Name, TOTAL_POSTS |-> sel[i].Posts]]

\* pd.merge(df_meta, df_total_posts, on='COUNTRY'): an inner join, one output
\* row per matching (left row, right row) pair, in the order of the left rows
merge_inner(left, right) ==
    Flatten([i \in DOMAIN left |->
        LET hit == SelectSeq(right, LAMBDA r : r.COUNTRY = left[i].COUNTRY)
        IN  [j \in DOMAIN hit |->
               [COUNTRY      |-> left[i].COUNTRY,
                OVERALL_RANK |-> left[i].OVERALL_RANK,
                TOTAL_POSTS  |-> hit[j].TOTAL_POSTS]]])

\* pd.merge(df_merged, post_type_counts[[...]], on='COUNTRY', how='left'):
\* every left row is kept; without a match its new cells are NaN
merge_left(left, right) ==
    Flatten([i \in DOMAIN left |->
        LET hit == SelectSeq(right, LAMBDA r : r.COUNTRY = left[i].COUNTRY)
        IN  IF hit = <<>>
            THEN <<[COUNTRY      |-> left[i].COUNTRY,
                    OVERALL_RANK |-> left[i].OVERALL_RANK,
                    TOTAL_POSTS  |-> left[i].TOTAL_POSTS,
                    Embassies    |-> NaN,
                    Consulates   |-> NaN]>>
            ELSE [j \in DOMAIN hit |->
                    [COUNTRY      |-> left[i].COUNTRY,
                     OVERALL_RANK |-> left[i].OVERALL_RANK,
                     TOTAL_POSTS  |-> left[i].TOTAL_POSTS,
                     Embassies    |-> Some(hit[j].Embassies),
                     Consulates   |-> Some(hit[j].Consulates)]]])

\* lines 86-106
final_display(detail, long, year) ==
    LET df_ranking == SelectSeq(detail, LAMBDA r : r[ColYear] = year)
        df_meta    == drop_duplicates(meta_columns(df_ranking))
        df_merged  == merge_inner(df_meta, total_posts(long, year))
    IN  merge_left(df_merged, post_type_counts(df_ranking))

\* df_final_display[columns_to_show].rename(columns=rename_map)
show_columns(frame) ==
    [i \in DOMAIN frame |->
       [Rank        |-> frame[i].OVERALL_RANK,
        Country     |-> frame[i].COUNTRY,
        TOTAL_POSTS |-> frame[i].TOTAL_POSTS,
        Embassies   |-> frame[i].Embassies,
        Consulates  |-> frame[i].Consulates]]

all_years(detail) == {detail[i][ColYear] : i \in DOMAIN detail}

\* with tab2, for the year the select box holds
Tab2(year_to_display) ==
    /\ pc = "tab1"
    /\ year_to_display \in all_years(df_detail)
    /\ \E df_display \in
            sort_values(show_columns(final_display(df_detail, df_long, year_to_display)),
                        "Rank", TRUE) :
         tab2' = [year_to_display  |-> year_to_display,
                  df_final_display |-> final_display(df_detail, df_long, year_to_display),
                  df_display       |-> df_display]
    /\ pc' = "tab2"
    /\ UNCHANGED <<file, columns, df_detail, error, df_long, df_wide, tab1, df,
                   rank_analysis>>

----------------------------------------------------------------------------
(* calculate_rank_analysis *)

\* head(10)
HeadRows == 10

RECURSIVE SortDescending(_, _)
\* the values of a column from the largest down, duplicates kept
SortDescending(vals, idx) ==
    IF idx = {} THEN <<>>
    ELSE LET m == CHOOSE i \in idx : \A j \in idx : vals[i] >= vals[j]
         IN  <<vals[m]>> \o SortDescending(vals, idx \ {m})

\* faulty variant: method='first'
rank_first(vals) ==
    [i \in DOMAIN vals |->
        1 + Cardinality({j \in DOMAIN vals :
                           vals[j] > vals[i] \/ (vals[j] = vals[i] /\ j < i)})]

\* Series.rank(ascending=False, method='min'): the values are ordered from the
\* largest down and every value gets the lowest position at which it occurs
rank(vals) ==
    LET ordered == SortDescending(vals, DOMAIN vals)
    IN  [i \in DOMAIN vals |->
           CHOOSE k \in DOMAIN ordered :
              /\ ordered[k] = vals[i]
              /\ \A l \in 1..(k - 1) : ordered[l] # vals[i]]

\* df[df['Year'] == year].copy() with the column Rank added
ranked_year(frame, year) ==
    LET sel == SelectSeq(frame, LAMBDA r : r.Year = year)
        rk  == rank([i \in DOMAIN sel |-> sel[i].Posts])
    IN  [i \in DOMAIN sel |->
           [Name |-> sel[i].Name, Year |-> sel[i].Year, Posts |-> sel[i].Posts,
            Rank |-> rk[i]]]

\* 'Rank' with the suffix f'_{year}'
suffixed(year) == "Rank_" \o ToString(year)

\* pd.merge(df_start[['Name', 'Rank']], df_end[['Name', 'Rank']], on='Name',
\* suffixes=...): an inner join in the order of the left rows.  The frame is
\* its column labels and its rows; each side's Rank is relabelled with that
\* side's suffix, and pandas accepts two equal labels when each side's own
\* labels stay unique.
merge_on_name(left, right, start_year, end_year) ==
    [columns |-> <<"Name", suffixed(start_year), suffixed(end_year)>>,
     rows    |-> Flatten([i \in DOMAIN left |->
                   LET hit == SelectSeq(right, LAMBDA r : r.Name = left[i].Name)
                   IN  [j \in DOMAIN hit |-> <<left[i].Name, left[i].Rank, hit[j].Rank>>]])]

\* the positions of the columns a label selects
positions(frame, label) == {k \in DOMAIN frame.columns : frame.columns[k] = label}

\* df_merged[label] is a Series when the label names one column and a
\* DataFrame when it names several
is_series(frame, label) == Cardinality(positions(frame, label)) = 1

column(frame, label) ==
    LET k == CHOOSE c \in positions(frame, label) : TRUE
    IN  [i \in DOMAIN frame.rows |-> frame.rows[i][k]]

\* df_merged[f'Rank_{start_year}'] - df_merged[f'Rank_{end_year}']
rank_change(merged, start_year, end_year) ==
    [i \in DOMAIN merged.rows |->
        column(merged, suffixed(start_year))[i] - column(merged, suffixed(end_year))[i]]

\* df_merged with the column Rank_Change set
with_rank_change(merged, start_year, end_year) ==
    [i \in DOMAIN merged.rows |->
        [Name        |-> merged.rows[i][1],
         Rank_start  |-> merged.rows[i][2],
         Rank_end    |-> merged.rows[i][3],
         Rank_Change |-> rank_change(merged, start_year, end_year)[i]]]

\* calculate_rank_analysis(df, start_year, end_year)
calculate_rank_analysis(start_year, end_year) ==
    /\ rank_analysis.status = "none"
    /\ LET df_start == ranked_year(df, start_year)
           df_end   == ranked_year(df, end_year)
           merged   == merge_on_name(df_start, df_end, start_year, end_year)
       IN  IF ~(is_series(merged, suffixed(start_year))
                  /\ is_series(merged, suffixed(end_year)))
           THEN \* the difference is a DataFrame of two columns, and setting the
                \* single column Rank_Change to it raises
                rank_analysis' = [NoAnalysis EXCEPT
                                    !.status = "ValueError",
                                    !.start_year = start_year,
                                    !.end_year = end_year]
           ELSE LET df_merged == with_rank_change(merged, start_year, end_year)
                IN  \E most_improved \in
                          sort_values(df_merged, "Rank_Change", FALSE),
                       biggest_fall \in
                          sort_values(df_merged, "Rank_Change", TRUE) :
                      rank_analysis' =
                         [status        |-> "returned",
                          start_year    |-> start_year,
                          end_year      |-> end_year,
                          df_start      |-> df_start,
                          df_end        |-> df_end,
                          columns       |-> merged.columns \o <<"Rank_Change">>,
                          df_merged     |-> df_merged,
                          most_improved |-> head(most_improved, HeadRows),
                          biggest_fall  |-> head(biggest_fall, HeadRows)]
    /\ UNCHANGED <<pipeline_vars, df>>

----------------------------------------------------------------------------
(* Inputs *)

MkRow(c, y, t, r, cols) ==
    [k \in cols |-> CASE k = ColCountry -> c
                      [] k = ColYear    -> y
                      [] k = ColType    -> t
                      [] k = ColRank    -> r]

\* the labels and ranks the rows of a year are drawn from: every label and
\* rank in the latest year, one label and one rank in the earlier year
TypesOf(y) == IF \A z \in Years : z <= y THEN PostTypes ELSE {"Embassy"}

RanksOf(y) == IF \A z \in Years : z <= y THEN OverallRanks ELSE {1}

RowsOver(cols) ==
    UNION {{MkRow(c, y, t, r, cols) :
              c \in DetailCountries, t \in TypesOf(y), r \in RanksOf(y)} : y \in Years}

SheetsOver(cols) == UNION {[1..n -> RowsOver(cols)] : n \in 0..MaxRows}

Init ==
    /\ file \in {"ok", "unreadable"}
    /\ columns \in IF file = "ok"
                   THEN {AllCols \ m : m \in SUBSET Range(required_cols)}
                   ELSE {{}}
    /\ df_detail \in IF file = "ok" THEN SheetsOver(columns) ELSE {<<>>}
    /\ pc = "start"
    /\ error = ""
    /\ df_long = <<>>
    /\ df_wide = NoWide
    /\ tab1 = NoTab1
    /\ tab2 = NoTab2
    /\ df = <<>>
    /\ rank_analysis = NoAnalysis

Next ==
    \/ load_and_prepare_data
    \/ Tab1
    \/ \E y \in Years : Tab2(y)

Spec == Init /\ [][Next]_vars

----------------------------------------------------------------------------
(* Properties of the pipeline, checked under Spec *)

\* load_and_prepare_data has returned its three frames
Returned == pc \in {"loaded", "tab1", "tab2"} \/ (pc = "crashed" /\ error = "IndexError")

\* the raw rows of one country and year
RawRows(c, y) ==
    {i \in DOMAIN df_detail : df_detail[i]["COUNTRY"] = c /\ df_detail[i]["Year"] = y}

RawPairs == {<<df_detail[i]["COUNTRY"], df_detail[i]["Year"]>> : i \in DOMAIN df_detail}

LongRows(c, y) == {k \in DOMAIN df_long : df_long[k].Name = c /\ df_long[k].Year = y}

\* C1 - Grouping completeness: the long form holds exactly one row for every
\* (country, year) pair that occurs in the raw rows and no other row, the
\* Posts of a row is the number of raw rows with its pair, and the Posts of
\* the long form add up to the number of raw rows.
ThmGroupingCompleteness ==
    Returned =>
        /\ \A pr \in RawPairs :
              /\ Cardinality(LongRows(pr[1], pr[2])) = 1
              /\ \A k \in LongRows(pr[1], pr[2]) :
                    df_long[k].Posts = Cardinality(RawRows(pr[1], pr[2]))
        /\ \A k \in DOMAIN df_long : <<df_long[k].Name, df_long[k].Year>> \in RawPairs
        /\ SeqSum([k \in DOMAIN df_long |-> df_long[k].Posts]) = Len(df_detail)

\* a long form of several rows, one of which groups several raw rows
WitGroupingCompleteness ==
    /\ Returned
    /\ Len(df_long) >= 2
    /\ \E k \in DOMAIN df_long : df_long[k].Posts >= 2

\* the label Python's str() gives a year
YearLabel(y) == CASE y = 2020 -> "2020" [] y = 2021 -> "2021"

\* the cell of the wide pivot at row name and column label, as a set: empty
\* when the pivot has no such row or column
WideCells(name, label) ==
    {df_wide.rows[n].values[k - 1] :
        n \in {m \in DOMAIN df_wide.rows : df_wide.rows[m].Name = name},
        k \in {j \in DOMAIN df_wide.columns : j > 1 /\ df_wide.columns[j] = label}}

\* C5 - Pivot symmetry: a (country, year) of the long form with Posts p is the
\* value p at row country and column str(year) of the wide pivot, and a
\* combination that is not in the long form is missing (NaN or no such cell),
\* never 0.
ThmPivotSymmetry ==
    Returned =>
        /\ \A k \in DOMAIN df_long :
              WideCells(df_long[k].Name, YearLabel(df_long[k].Year))
                 = {<<df_long[k].Posts>>}
        /\ \A c \in DetailCountries, y \in Years :
              LongRows(c, y) = {} => WideCells(c, YearLabel(y)) \subseteq {<<>>}
        /\ df_wide.columns[1] = "Name"
        /\ \A n, m \in DOMAIN df_wide.rows :
              df_wide.rows[n].Name = df_wide.rows[m].Name => n = m

\* a pivot with a missing cell beside a cell that counts several posts
WitPivotSymmetry ==
    /\ Returned
    /\ \E c \in DetailCountries, y \in Years : WideCells(c, YearLabel(y)) = {<<>>}
    /\ \E k \in DOMAIN df_long :
          /\ df_long[k].Posts >= 2
          /\ WideCells(df_long[k].Name, YearLabel(df_long[k].Year)) # {}

SchemaComplete == {"COUNTRY", "Year", "OVERALL RANK"} \subseteq columns

\* C6 - Schema validation: once ingestion has run on a sheet that was read,
\* a sheet without one of COUNTRY, Year, OVERALL RANK has stopped the script
\* with the schema error and no long form, wide pivot or tab result exists;
\* a sheet with all three has returned its frames.
ThmSchemaValidation ==
    (file = "ok" /\ pc # "start") =>
        /\ ~SchemaComplete =>
              /\ pc = "stopped"
              /\ error = "FATAL ERROR: columns"
              /\ df_long = <<>>
              /\ df_wide = NoWide
              /\ tab1 = NoTab1
              /\ tab2 = NoTab2
              /\ ~ENABLED Next
        /\ SchemaComplete => Returned

\* ingestion has stopped on a non-empty sheet that lacks OVERALL RANK only
WitSchemaValidation ==
    /\ pc = "stopped"
    /\ file = "ok"
    /\ columns = {"COUNTRY", "Year", "POST TYPE TITLE"}
    /\ df_detail # <<>>

----------------------------------------------------------------------------
(* Properties of tab 2, checked under Spec *)

\* the raw rows of country c in the displayed year that carry label t
Labelled(c, t) ==
    {i \in RawRows(c, tab2.year_to_display) : df_detail[i]["POST TYPE TITLE"] = t}

Recognised(c) ==
    Labelled(c, "Embassy") \cup Labelled(c, "High Commission")
       \cup Labelled(c, "Consulate") \cup Labelled(c, "Consulate General")

\* C2 - Classification partition: in the table of the displayed year every
\* country has Embassies = #Embassy + #High Commission and Consulates =
\* #Consulate + #Consulate General of its raw rows of that year, TOTAL POSTS
\* counts all its raw rows, Embassies + Consulates <= TOTAL POSTS, and the two
\* are equal only if every raw row carries one of the four labels.
ThmClassificationPartition ==
    pc = "tab2" =>
        \A k \in DOMAIN tab2.df_display :
            LET r == tab2.df_display[k]
                c == r.Country
            IN  /\ r.Embassies = <<Cardinality(Labelled(c, "Embassy"))
                                     + Cardinality(Labelled(c, "High Commission"))>>
                /\ r.Consulates = <<Cardinality(Labelled(c, "Consulate"))
                                      + Cardinality(Labelled(c, "Consulate General"))>>
                /\ r.TOTAL_POSTS = Cardinality(RawRows(c, tab2.year_to_display))
                /\ r.Embassies[1] + r.Consulates[1] <= r.TOTAL_POSTS
                /\ r.Embassies[1] + r.Consulates[1] = r.TOTAL_POSTS
                      => Recognised(c) = RawRows(c, tab2.year_to_display)

\* a table with a country that has an Embassy and a High Commission, and a
\* country with a post of another label
WitClassificationPartition ==
    /\ pc = "tab2"
    /\ \E k \in DOMAIN tab2.df_display :
          /\ Labelled(tab2.df_display[k].Country, "Embassy") # {}
          /\ Labelled(tab2.df_display[k].Country, "High Commission") # {}
    /\ \E k \in DOMAIN tab2.df_display :
          Recognised(tab2.df_display[k].Country)
             # RawRows(tab2.df_display[k].Country, tab2.year_to_display)

\* C8 - A country of the table none of whose posts of the year carries one of
\* the four labels has Embassies = 0 and Consulates = 0, not NaN.
ThmUnclassifiedIsZero ==
    pc = "tab2" =>
        \A k \in DOMAIN tab2.df_display :
            Recognised(tab2.df_display[k].Country) = {} =>
                /\ tab2.df_display[k].Embassies = <<0>>
                /\ tab2.df_display[k].Consulates = <<0>>

\* a table with a country whose posts are all of another label
WitUnclassifiedIsZero ==
    /\ pc = "tab2"
    /\ \E k \in DOMAIN tab2.df_display :
          /\ Recognised(tab2.df_display[k].Country) = {}
          /\ tab2.df_display[k].TOTAL_POSTS >= 1

CountriesOfYear == {c \in DetailCountries : RawRows(c, tab2.year_to_display) # {}}

FirstRaw(c) ==
    CHOOSE i \in RawRows(c, tab2.year_to_display) :
        \A j \in RawRows(c, tab2.year_to_display) : i <= j

\* C9 - The table of the displayed year has exactly one row for every country
\* with a raw row in that year and no other row, before and after the sort,
\* and the row carries the metadata of the country's first raw row of the year.
ThmOneRowPerCountry ==
    pc = "tab2" =>
        /\ Len(tab2.df_final_display) = Cardinality(CountriesOfYear)
        /\ Len(tab2.df_display) = Cardinality(CountriesOfYear)
        /\ \A c \in CountriesOfYear :
              /\ Cardinality({k \in DOMAIN tab2.df_final_display :
                                 tab2.df_final_display[k].COUNTRY = c}) = 1
              /\ Cardinality({k \in DOMAIN tab2.df_display :
                                 tab2.df_display[k].Country = c}) = 1
              /\ \A k \in DOMAIN tab2.df_display :
                    tab2.df_display[k].Country = c =>
                       tab2.df_display[k].Rank = df_detail[FirstRaw(c)]["OVERALL RANK"]

\* a table of a year in which a country has two raw rows with different
\* metadata
WitOneRowPerCountry ==
    /\ pc = "tab2"
    /\ \E c \in CountriesOfYear :
          \E i, j \in RawRows(c, tab2.year_to_display) :
              df_detail[i]["OVERALL RANK"] # df_detail[j]["OVERALL RANK"]

\* the long forms handed to calculate_rank_analysis: for every country and
\* year no row or one row with 1..MaxPosts posts, in group-key order
LongForms ==
    {LET keys == SortKeys({k \in Countries \X Years : f[k] > 0})
     IN  [i \in DOMAIN keys |->
            [Name |-> keys[i][1], Year |-> keys[i][2], Posts |-> f[keys[i]]]] :
        f \in [Countries \X Years -> 0..MaxPosts]}

InitRank ==
    /\ file = "ok"
    /\ columns = AllCols
    /\ df_detail = <<>>
    /\ pc = "start"
    /\ error = ""
    /\ df_long = <<>>
    /\ df_wide = NoWide
    /\ tab1 = NoTab1
    /\ tab2 = NoTab2
    /\ df \in LongForms
    /\ rank_analysis = NoAnalysis

NextRank ==
    \E start_year \in Years, end_year \in Years :
        calculate_rank_analysis(start_year, end_year)

SpecRank == InitRank /\ [][NextRank]_vars

----------------------------------------------------------------------------
(* Properties of calculate_rank_analysis, checked under SpecRank *)

Called == rank_analysis.status # "none"

HasReturned == rank_analysis.status = "returned"

\* the rows of df of one year
YearRows(y) == {k \in DOMAIN df : df[k].Year = y}

PostsOf(c, y) == df[CHOOSE k \in YearRows(y) : df[k].Name = c].Posts

Present(c, y) == \E k \in YearRows(y) : df[k].Name = c

\* competition rank: one more than the number of countries of the year with
\* strictly more posts
CompetitionRank(c, y) ==
    1 + Cardinality({k \in YearRows(y) : df[k].Posts > PostsOf(c, y)})

RankedCorrectly(frame, y) ==
    /\ {frame[i].Name : i \in DOMAIN frame} = {c \in Countries : Present(c, y)}
    /\ Len(frame) = Cardinality(YearRows(y))
    /\ \A i, j \in DOMAIN frame :
          /\ frame[i].Posts > frame[j].Posts => frame[i].Rank <= frame[j].Rank
          /\ frame[i].Posts = frame[j].Posts => frame[i].Rank = frame[j].Rank
    /\ \A i \in DOMAIN frame :
          /\ frame[i].Posts = PostsOf(frame[i].Name, y)
          /\ frame[i].Rank = CompetitionRank(frame[i].Name, y)

\* C3 - Rank monotonicity: in each of the two ranked years more posts never
\* give a larger rank, equal posts give equal ranks, and the rank of a
\* country is 1 + the number of countries of that year with strictly more
\* posts.
ThmRankMonotonicity ==
    HasReturned =>
        /\ RankedCorrectly(rank_analysis.df_start, rank_analysis.start_year)
        /\ RankedCorrectly(rank_analysis.df_end, rank_analysis.end_year)

\* a ranked year in which two countries tie for rank 1 and the third has
\* rank 3
WitRankMonotonicity ==
    /\ HasReturned
    /\ \E i, j, k \in DOMAIN rank_analysis.df_start :
          /\ i # j
          /\ rank_analysis.df_start[i].Rank = 1
          /\ rank_analysis.df_start[j].Rank = 1
          /\ rank_analysis.df_start[k].Rank = 3

InBoth(s, e) == {c \in Countries : Present(c, s) /\ Present(c, e)}

\* the Rank_Change the function computes for country c and the years (s, e),
\* as a set: empty when the joined frame has no row of c
ChangeOf(c, s, e) ==
    LET m == with_rank_change(merge_on_name(ranked_year(df, s), ranked_year(df, e), s, e),
                              s, e)
    IN  {m[i].Rank_Change : i \in {k \in DOMAIN m : m[k].Name = c}}

\* the joined frame is right for the years (s, e) and mirrors that of (e, s)
ChangeSymmetric(s, e) ==
    /\ rank_analysis.status = "returned"
    /\ {rank_analysis.df_merged[i].Name : i \in DOMAIN rank_analysis.df_merged}
          = InBoth(s, e)
    /\ Len(rank_analysis.df_merged) = Cardinality(InBoth(s, e))
    /\ \A i \in DOMAIN rank_analysis.df_merged :
          LET r == rank_analysis.df_merged[i]
          IN  /\ r.Rank_Change = CompetitionRank(r.Name, s) - CompetitionRank(r.Name, e)
              /\ r.Rank_Change = r.Rank_start - r.Rank_end
              /\ ChangeOf(r.Name, e, s) = {0 - r.Rank_Change}
    /\ \A i \in DOMAIN rank_analysis.most_improved :
          rank_analysis.most_improved[i].Name \in InBoth(s, e)
    /\ \A i \in DOMAIN rank_analysis.biggest_fall :
          rank_analysis.biggest_fall[i].Name \in InBoth(s, e)

\* C4 - Rank-change symmetry: for every pair of years (start, end) the call
\* yields, for every country present in both years, rankChange = rankAtStart -
\* rankAtEnd, which is the negation of its rankChange for (end, start), and
\* only the countries present in both years appear in the results.
CexRankChangeSymmetry ==
    Called => ChangeSymmetric(rank_analysis.start_year, rank_analysis.end_year)

\* C4 for two different years: the part of the claim the code satisfies
RankChangeSymmetryDistinctYears ==
    (Called /\ rank_analysis.start_year # rank_analysis.end_year)
        => ChangeSymmetric(rank_analysis.start_year, rank_analysis.end_year)

AllZeroChange(frame) == \A i \in DOMAIN frame : frame[i].Rank_Change = 0

\* C7 - Degenerate year pair: a call with start_year = end_year does not fail,
\* every Rank_Change is 0, and with at least 10 countries in that year both
\* results hold 10 rows.
CexDegenerateYearPair ==
    (Called /\ rank_analysis.start_year = rank_analysis.end_year) =>
        /\ rank_analysis.status = "returned"
        /\ AllZeroChange(rank_analysis.most_improved)
        /\ AllZeroChange(rank_analysis.biggest_fall)
        /\ Cardinality(YearRows(rank_analysis.start_year)) >= 10 =>
              /\ Len(rank_analysis.most_improved) = 10
              /\ Len(rank_analysis.biggest_fall) = 10

\* the place of a country's row in the frame the sorts read
InputPlace(name) ==
    CHOOSE i \in DOMAIN rank_analysis.df_merged : rank_analysis.df_merged[i].Name = name

\* out is the first (at most) 10 rows of df_merged in the order of leq on
\* Rank_Change, rows of equal Rank_Change in their order in df_merged
StableTopTen(out, leq(_, _)) ==
    /\ Len(out) = Min(10, Len(rank_analysis.df_merged))
    /\ \A i \in DOMAIN out : out[i] \in Range(rank_analysis.df_merged)
    /\ \A i, j \in DOMAIN out :
          i < j => /\ leq(out[i].Rank_Change, out[j].Rank_Change)
                   /\ out[i].Rank_Change = out[j].Rank_Change
                         => InputPlace(out[i].Name) < InputPlace(out[j].Name)
    /\ \A i \in DOMAIN out : \A k \in DOMAIN rank_analysis.df_merged :
          rank_analysis.df_merged[k] \notin Range(out) =>
             /\ leq(out[i].Rank_Change, rank_analysis.df_merged[k].Rank_Change)

\* C10 - most_improved is the first (at most) 10 rows of the joined frame by
\* Rank_Change descending and biggest_fall the first (at most) 10 by
\* Rank_Change ascending, and in both the rows of equal Rank_Change keep their
\* input order.
CexStableTopTen ==
    HasReturned =>
        /\ StableTopTen(rank_analysis.most_improved, LAMBDA a, b : a >= b)
        /\ StableTopTen(rank_analysis.biggest_fall, LAMBDA a, b : a <= b)

\* C10 without the tie rule: the part of the claim the code satisfies
OrderedTopTen ==
    HasReturned =>
        /\ Len(rank_analysis.most_improved) = Min(10, Len(rank_analysis.df_merged))
        /\ Len(rank_analysis.biggest_fall) = Min(10, Len(rank_analysis.df_merged))
        /\ \A i, j \in DOMAIN rank_analysis.most_improved :
              i < j => rank_analysis.most_improved[i].Rank_Change
                          >= rank_analysis.most_improved[j].Rank_Change
        /\ \A i, j \in DOMAIN rank_analysis.biggest_fall :
              i < j => rank_analysis.biggest_fall[i].Rank_Change
                          <= rank_analysis.biggest_fall[j].Rank_Change

====
